---- MODULE Spec2Model ----
(***************************************************************************)
(* Model of lamar's Vec3<T> (src/src/vector/vec3.rs) instantiated at a     *)
(* signed fixed-width integer scalar T.                                    *)
(*                                                                         *)
(* A behaviour is: two operands are constructed (the left one a Vec3, the  *)
(* right one a Vec3 or a scalar, as the operator traits dispatch), then    *)
(* one operation of the type is applied to them and its outcome recorded.  *)
(*                                                                         *)
(* T's arithmetic is Rust's primitive integer arithmetic: an overflowing   *)
(* + - * panics when the build has overflow checks (the dev/test profile)  *)
(* and wraps modulo 2^Width otherwise (the release profile); / panics on   *)
(* a zero divisor and on TMin / -1 in every build.                         *)
(***************************************************************************)
EXTENDS Integers, FiniteSets, Sequences, TLC

VARIABLES lhs, rhs, op, out, overflow_checks

vars == <<lhs, rhs, op, out, overflow_checks>>

\* ---- bounds -------------------------------------------------------------
\* bit width of the scalar type T (a scaled-down i8/i32)
Width == 3
\* operands take the values -MaxVal..MaxVal and the two extremes of T
MaxVal == 1

\* ---- the scalar type T --------------------------------------------------
Modulus == 2 ^ Width
TMin == 0 - (2 ^ (Width - 1))
TMax == (2 ^ (Width - 1)) - 1
T == TMin..TMax

\* the outcome of a scalar expression whose evaluation panicked; outside T
PANIC == Modulus

\* two's complement wrap of a mathematical integer into T
Wrap(n) == ((n - TMin) % Modulus) + TMin

\* outcome of a + - * whose mathematical result is n
Arith(n) == IF n \in T THEN n ELSE IF overflow_checks THEN PANIC ELSE Wrap(n)

Abs(n) == IF n < 0 THEN 0 - n ELSE n

\* T's `+`
add_T(a, b) == IF a = PANIC \/ b = PANIC THEN PANIC ELSE Arith(a + b)

\* T's `-`
sub_T(a, b) == IF a = PANIC \/ b = PANIC THEN PANIC ELSE Arith(a - b)

\* T's `*`
mul_T(a, b) == IF a = PANIC \/ b = PANIC THEN PANIC ELSE Arith(a * b)

\* T's `/`: truncates toward zero; panics on b = 0 and on TMin / -1
div_T(a, b) ==
    IF a = PANIC \/ b = PANIC THEN PANIC
    ELSE IF b = 0 THEN PANIC
    ELSE IF a = TMin /\ b = 0 - 1 THEN PANIC
    ELSE IF (a < 0) = (b < 0) THEN Abs(a) \div Abs(b)
    ELSE 0 - (Abs(a) \div Abs(b))

\* ---- values and outcomes ------------------------------------------------
\* the operand values the model constructs
Vals == ((0 - MaxVal)..MaxVal) \cup {TMin, TMax}

\* Vec3::new
new(x, y, z) == [tag |-> "vec", x |-> x, y |-> y, z |-> z]

\* a scalar operand or result
Scalar(n) == [tag |-> "scalar", n |-> n]

\* a boolean result
Bool(b) == [tag |-> "bool", b |-> b]

\* the operation panicked: no value is produced
Panicked == [tag |-> "panic"]

\* no operation applied yet
NoOut == [tag |-> "none"]

\* the struct literal Self { x: ex, y: ey, z: ez }: a panic while evaluating
\* a field expression unwinds out of the function
Struct(ex, ey, ez) ==
    IF ex = PANIC \/ ey = PANIC \/ ez = PANIC THEN Panicked ELSE new(ex, ey, ez)

\* a function returning T
Ret(e) == IF e = PANIC THEN Panicked ELSE Scalar(e)

IsVec(v) == v.tag = "vec"
IsScalar(v) == v.tag = "scalar"

\* ---- Vec3<T> ------------------------------------------------------------
\* variant: the comparison stops after the first two fields
eq_ignores_z(self, other) ==
    self.x = other.x /\ self.y = other.y

\* derived PartialEq
eq(self, other) ==
    self.x = other.x /\ self.y = other.y /\ self.z = other.z

\* variant: the last product is subtracted
dot_minus(self, other) ==
    Ret(sub_T(add_T(mul_T(self.x, other.x), mul_T(self.y, other.y)),
              mul_T(self.z, other.z)))

\* Vec3::dot
dot(self, other) ==
    Ret(add_T(add_T(mul_T(self.x, other.x), mul_T(self.y, other.y)),
              mul_T(self.z, other.z)))

\* variant: the x component takes other.x for other.y
cross_typo_x(self, other) ==
    Struct(sub_T(mul_T(self.y, other.z), mul_T(self.z, other.x)),
           sub_T(mul_T(self.z, other.x), mul_T(self.x, other.z)),
           sub_T(mul_T(self.x, other.y), mul_T(self.y, other.x)))

\* variant: the z component adds its two products
cross_plus_z(self, other) ==
    Struct(sub_T(mul_T(self.y, other.z), mul_T(self.z, other.y)),
           sub_T(mul_T(self.z, other.x), mul_T(self.x, other.z)),
           add_T(mul_T(self.x, other.y), mul_T(self.y, other.x)))

\* variant: the y component has its two products exchanged
cross_sign_y(self, other) ==
    Struct(sub_T(mul_T(self.y, other.z), mul_T(self.z, other.y)),
           sub_T(mul_T(self.x, other.z), mul_T(self.z, other.x)),
           sub_T(mul_T(self.x, other.y), mul_T(self.y, other.x)))

\* Vec3::cross
cross(self, other) ==
    Struct(sub_T(mul_T(self.y, other.z), mul_T(self.z, other.y)),
           sub_T(mul_T(self.z, other.x), mul_T(self.x, other.z)),
           sub_T(mul_T(self.x, other.y), mul_T(self.y, other.x)))

\* impl Add for Vec3<T>
add(self, other) ==
    Struct(add_T(self.x, other.x), add_T(self.y, other.y), add_T(self.z, other.z))

\* impl Add<T> for Vec3<T>
add_scalar(self, other) ==
    Struct(add_T(self.x, other), add_T(self.y, other), add_T(self.z, other))

\* variant: the operands are exchanged
sub_swapped(self, other) ==
    Struct(sub_T(other.x, self.x), sub_T(other.y, self.y), sub_T(other.z, self.z))

\* impl Sub for Vec3<T>
sub(self, other) ==
    Struct(sub_T(self.x, other.x), sub_T(self.y, other.y), sub_T(self.z, other.z))

\* impl Sub<T> for Vec3<T>
sub_scalar(self, other) ==
    Struct(sub_T(self.x, other), sub_T(self.y, other), sub_T(self.z, other))

\* variant: the componentwise product
mul_componentwise(self, other) ==
    Struct(mul_T(self.x, other.x), mul_T(self.y, other.y), mul_T(self.z, other.z))

\* impl Mul for Vec3<T>
mul(self, other) == cross(self, other)

\* variant: the z component is computed from self.y
mul_scalar_dep(self, other) ==
    Struct(mul_T(self.x, other), mul_T(self.y, other), mul_T(self.y, other))

\* impl Mul<T> for Vec3<T>
mul_scalar(self, other) ==
    Struct(mul_T(self.x, other), mul_T(self.y, other), mul_T(self.z, other))

\* variant: quotients rounded toward negative infinity
div_floor(self, other) ==
    LET floor(a) ==
            IF div_T(a, other) = PANIC THEN PANIC
            ELSE IF div_T(a, other) * other # a /\ (a < 0) # (other < 0)
                 THEN div_T(a, other) - 1
                 ELSE div_T(a, other)
    IN  Struct(floor(self.x), floor(self.y), floor(self.z))

\* variant: a zero divisor is caught and the vector returned unchanged
div_guarded(self, other) ==
    IF other = 0 THEN self
    ELSE Struct(div_T(self.x, other), div_T(self.y, other), div_T(self.z, other))

\* impl Div<T> for Vec3<T>
div(self, other) ==
    Struct(div_T(self.x, other), div_T(self.y, other), div_T(self.z, other))

\* ---- the state machine --------------------------------------------------
Vec3 == {new(x, y, z) : x \in Vals, y \in Vals, z \in Vals}

Init ==
    /\ lhs \in Vec3
    /\ rhs \in Vec3 \cup {Scalar(n) : n \in Vals}
    /\ overflow_checks \in BOOLEAN
    /\ op = "new"
    /\ out = NoOut

Apply(name, result) ==
    /\ op = "new"
    /\ op' = name
    /\ out' = result
    /\ UNCHANGED <<lhs, rhs, overflow_checks>>

Eq == IsVec(rhs) /\ Apply("eq", Bool(eq(lhs, rhs)))
Dot == IsVec(rhs) /\ Apply("dot", dot(lhs, rhs))
Cross == IsVec(rhs) /\ Apply("cross", cross(lhs, rhs))
Add == IsVec(rhs) /\ Apply("add", add(lhs, rhs))
Sub == IsVec(rhs) /\ Apply("sub", sub(lhs, rhs))
Mul == IsVec(rhs) /\ Apply("mul", mul(lhs, rhs))
AddScalar == IsScalar(rhs) /\ Apply("add_scalar", add_scalar(lhs, rhs.n))
SubScalar == IsScalar(rhs) /\ Apply("sub_scalar", sub_scalar(lhs, rhs.n))
MulScalar == IsScalar(rhs) /\ Apply("mul_scalar", mul_scalar(lhs, rhs.n))
Div == IsScalar(rhs) /\ Apply("div", div(lhs, rhs.n))

Next ==
    \/ Eq
    \/ Dot
    \/ Cross
    \/ Add
    \/ Sub
    \/ Mul
    \/ AddScalar
    \/ SubScalar
    \/ MulScalar
    \/ Div

Spec == Init /\ [][Next]_vars

TypeOK ==
    /\ lhs \in Vec3
    /\ op \in {"new", "eq", "dot", "cross", "add", "sub", "mul",
               "add_scalar", "sub_scalar", "mul_scalar", "div"}
    /\ out.tag \in {"none", "vec", "scalar", "bool", "panic"}
    /\ out.tag = "vec" => out.x \in T /\ out.y \in T /\ out.z \in T
    /\ out.tag = "scalar" => out.n \in T

\* ---- reference semantics used by the properties -------------------------
\* outcome in T of a + - * expression whose exact value is n and whose exact
\* intermediate values (n included) are steps: with overflow checks the
\* first value that leaves T panics, without them the result wraps
InT(steps, n) ==
    IF overflow_checks /\ (\E s \in steps : s \notin T) THEN PANIC ELSE Wrap(n)

\* exact value of p - q in T, from exact products p and q
DiffInT(p, q) == InT({p, q, p - q}, p - q)

\* exact value of x (+) y in T for one binary step
StepInT(n) == InT({n}, n)

\* T's unary minus
neg_T(a) == IF a = PANIC THEN PANIC ELSE Arith(0 - a)

\* componentwise negation of an outcome
Neg(o) ==
    IF o.tag = "vec" THEN Struct(neg_T(o.x), neg_T(o.y), neg_T(o.z)) ELSE Panicked

\* dot of a vector with an outcome
DotOut(v, o) == IF o.tag = "vec" THEN dot(v, o) ELSE Panicked

\* q is a divided by s truncated toward zero, the remainder discarded
IsTruncQuot(a, s, q) ==
    \E r \in (1 - Abs(s))..(Abs(s) - 1) :
        /\ a = (q * s) + r
        /\ (r = 0 \/ (r < 0) = (a < 0))

ZeroVec == new(0, 0, 0)

\* ---- properties ---------------------------------------------------------

\* C1: a * b returns exactly what cross(a, b) returns, for every a and b
\* (the cross product, not the componentwise product nor the dot product).
MulIsCross ==
    op = "mul" => out = cross(lhs, rhs)

MulIsCrossWitness ==
    /\ op = "mul"
    /\ out.tag = "vec"
    /\ out.x # Wrap(lhs.x * rhs.x)
    /\ out.y # Wrap(lhs.y * rhs.y)
    /\ out.z # Wrap(lhs.z * rhs.z)
    /\ out.x # 0 /\ out.y # 0 /\ out.z # 0

\* C2: cross(a, b) is the vector x = a.y*b.z - a.z*b.y, y = a.z*b.x - a.x*b.z,
\* z = a.x*b.y - a.y*b.x, in that order, each evaluated in T's arithmetic.
CrossFormula ==
    op = "cross" =>
        out = Struct(DiffInT(lhs.y * rhs.z, lhs.z * rhs.y),
                     DiffInT(lhs.z * rhs.x, lhs.x * rhs.z),
                     DiffInT(lhs.x * rhs.y, lhs.y * rhs.x))

CrossFormulaWitness ==
    /\ op = "cross"
    /\ out.tag = "vec"
    /\ out.x # 0 /\ out.y # 0 /\ out.z # 0
    /\ out.x # out.y /\ out.y # out.z /\ out.x # out.z

\* C3: dot(a, b) is the scalar a.x*b.x + a.y*b.y + a.z*b.z, evaluated in T's
\* arithmetic.
DotFormula ==
    op = "dot" =>
        LET px == lhs.x * rhs.x
            py == lhs.y * rhs.y
            pz == lhs.z * rhs.z
        IN  out = Ret(InT({px, py, pz, px + py, px + py + pz}, px + py + pz))

DotFormulaWitness ==
    /\ op = "dot"
    /\ out.tag = "scalar"
    /\ out.n # 0
    /\ lhs.x * rhs.x # 0 /\ lhs.y * rhs.y # 0 /\ lhs.z * rhs.z # 0
    /\ lhs.x * rhs.x # lhs.y * rhs.y

\* C4 as stated: cross(a, b) equals the componentwise negation of cross(b, a)
\* for all a and b.
Anticommutative ==
    op = "cross" => out = Neg(cross(rhs, lhs))

\* C4 as amended: whenever cross(b, a) and its componentwise negation evaluate
\* without an overflow panic (always, when arithmetic wraps), cross(a, b)
\* equals that negation.
AnticommutativeUnlessPanic ==
    op = "cross" =>
        /\ Neg(cross(rhs, lhs)).tag = "vec" => out = Neg(cross(rhs, lhs))
        /\ ~overflow_checks => Neg(cross(rhs, lhs)).tag = "vec"

AnticommutativeWitness ==
    /\ op = "cross"
    /\ out.tag = "vec"
    /\ Neg(cross(rhs, lhs)).tag = "vec"
    /\ out.x # 0 /\ out.y # 0 /\ out.z # 0
    /\ (lhs.y * rhs.z) - (lhs.z * rhs.y) \notin T

\* C5: a + b is (a.x+b.x, a.y+b.y, a.z+b.z) and a - b is
\* (a.x-b.x, a.y-b.y, a.z-b.z) with the left operand as minuend.
AddSubComponentwise ==
    /\ op = "add" =>
           out = Struct(StepInT(lhs.x + rhs.x), StepInT(lhs.y + rhs.y),
                        StepInT(lhs.z + rhs.z))
    /\ op = "sub" =>
           out = Struct(StepInT(lhs.x - rhs.x), StepInT(lhs.y - rhs.y),
                        StepInT(lhs.z - rhs.z))

AddSubWitness ==
    /\ op = "sub"
    /\ out.tag = "vec"
    /\ out.x < 0 /\ out.y > 0 /\ out.z # 0
    /\ lhs.x > 0 /\ rhs.y < 0

\* C6: a + s, a - s and a * s apply the same scalar s to each component on
\* its own: (a.x+s, a.y+s, a.z+s), (a.x-s, a.y-s, a.z-s), (a.x*s, a.y*s, a.z*s).
ScalarOpsComponentwise ==
    /\ op = "add_scalar" =>
           out = Struct(StepInT(lhs.x + rhs.n), StepInT(lhs.y + rhs.n),
                        StepInT(lhs.z + rhs.n))
    /\ op = "sub_scalar" =>
           out = Struct(StepInT(lhs.x - rhs.n), StepInT(lhs.y - rhs.n),
                        StepInT(lhs.z - rhs.n))
    /\ op = "mul_scalar" =>
           out = Struct(StepInT(lhs.x * rhs.n), StepInT(lhs.y * rhs.n),
                        StepInT(lhs.z * rhs.n))

ScalarOpsWitness ==
    /\ op = "mul_scalar"
    /\ out.tag = "vec"
    /\ rhs.n \notin {0, 1}
    /\ lhs.x # lhs.y /\ lhs.y # lhs.z /\ lhs.x # lhs.z
    /\ out.x # out.y /\ out.y # out.z /\ out.x # out.z

\* C7 as stated: for every a and every non-zero s, a / s is the vector of the
\* three quotients truncated toward zero.
DivTruncates ==
    (op = "div" /\ rhs.n # 0) =>
        /\ out.tag = "vec"
        /\ IsTruncQuot(lhs.x, rhs.n, out.x)
        /\ IsTruncQuot(lhs.y, rhs.n, out.y)
        /\ IsTruncQuot(lhs.z, rhs.n, out.z)

\* C7 as amended: for every a and every non-zero s, a / s is the vector of
\* the three quotients truncated toward zero, except that it panics when s
\* is -1 and a component is T's minimum (the quotient is not in T).
DivTruncatesUnlessMinByMinusOne ==
    (op = "div" /\ rhs.n # 0) =>
        IF rhs.n = 0 - 1 /\ TMin \in {lhs.x, lhs.y, lhs.z}
        THEN out = Panicked
        ELSE /\ out.tag = "vec"
             /\ IsTruncQuot(lhs.x, rhs.n, out.x)
             /\ IsTruncQuot(lhs.y, rhs.n, out.y)
             /\ IsTruncQuot(lhs.z, rhs.n, out.z)

DivTruncatesWitness ==
    /\ op = "div"
    /\ out.tag = "vec"
    /\ rhs.n > 1
    /\ lhs.x < 0 /\ out.x < 0 /\ out.x * rhs.n # lhs.x
    /\ lhs.y > 0 /\ out.y > 0
    /\ lhs.z < 0 /\ out.z = 0

\* C8: a / 0 has no zero check of its own: for every a it ends in the scalar
\* division's panic and never yields a Vec3.
DivByZeroPanics ==
    (op = "div" /\ rhs.n = 0) => out = Panicked

DivByZeroWitness ==
    /\ op = "div"
    /\ rhs.n = 0
    /\ out.tag = "panic"
    /\ lhs.x # 0 /\ lhs.y = 0

\* C9: a == b holds iff the three components are pairwise equal; equality
\* is reflexive and symmetric, and two vectors that differ in a single
\* component are unequal.
EqComponentwiseExact ==
    op = "eq" =>
        /\ out.b = (<<lhs.x, lhs.y, lhs.z>> = <<rhs.x, rhs.y, rhs.z>>)
        /\ out.b = eq(rhs, lhs)
        /\ eq(lhs, lhs) /\ eq(rhs, rhs)
        /\ \A v \in Vals :
               /\ v # lhs.x => ~eq(lhs, new(v, lhs.y, lhs.z))
               /\ v # lhs.y => ~eq(lhs, new(lhs.x, v, lhs.z))
               /\ v # lhs.z => ~eq(lhs, new(lhs.x, lhs.y, v))

EqWitness ==
    /\ op = "eq"
    /\ out.tag = "bool"
    /\ ~out.b
    /\ lhs.x = rhs.x /\ lhs.y = rhs.y /\ lhs.z # rhs.z

\* C10 as stated: for all a and b, dot(a, cross(a, b)) = 0 and
\* dot(b, cross(a, b)) = 0, and cross(a, a) is the zero vector.
CrossOrthogonal ==
    op = "cross" =>
        /\ DotOut(lhs, out) = Scalar(0)
        /\ DotOut(rhs, out) = Scalar(0)
        /\ eq(lhs, rhs) => out = ZeroVec

\* C10 as amended: whenever the evaluation completes without an overflow
\* panic (always, when arithmetic wraps), dot(a, cross(a, b)) = 0 and
\* dot(b, cross(a, b)) = 0, and cross(a, a) is the zero vector.
CrossOrthogonalUnlessPanic ==
    op = "cross" =>
        /\ DotOut(lhs, out).tag = "scalar" => DotOut(lhs, out).n = 0
        /\ DotOut(rhs, out).tag = "scalar" => DotOut(rhs, out).n = 0
        /\ (eq(lhs, rhs) /\ out.tag = "vec") => out = ZeroVec
        /\ ~overflow_checks =>
               /\ DotOut(lhs, out).tag = "scalar"
               /\ DotOut(rhs, out).tag = "scalar"
               /\ out.tag = "vec"

CrossOrthogonalWitness ==
    /\ op = "cross"
    /\ out.tag = "vec"
    /\ out.x # 0 /\ out.y # 0 /\ out.z # 0
    /\ DotOut(lhs, out) = Scalar(0)
    /\ DotOut(rhs, out) = Scalar(0)
    /\ (lhs.x * out.x) + (lhs.y * out.y) \notin T
====
